---- MODULE Spec2Model ----
(***************************************************************************)
(* State-machine model of the self-driving Rubik's cube animation of       *)
(* src/src/components/Cube.tsx (component Cube).                           *)
(*                                                                         *)
(* Numbers.  The code computes with IEEE doubles.  The model computes with *)
(* fixed-point integers: the value 1.0 is the integer One, and one unit is *)
(* half of EPSILON (0.5e-9), the coarsest grid on which a residue smaller  *)
(* than EPSILON, EPSILON itself, CUBE_GAP and 1.0 are all representable in *)
(* a 32-bit integer.  A quarter-turn of a lattice vector about a           *)
(* coordinate axis is exact in real arithmetic; the doubles of three.js    *)
(* leave a rounding residue far below EPSILON, which the model adds        *)
(* explicitly (Residue) so that snapToGrid and the EPSILON comparison of   *)
(* getCubiesInLayer have something to absorb.                              *)
(*                                                                         *)
(* React.  rotationState and cubiePositions are the values captured by the *)
(* closures of the last render (what useFrame reads); pendingRotationState *)
(* and pendingCubiePositions are React's state with every queued update    *)
(* applied (what a functional updater receives as prev).  Render commits   *)
(* the pending state and runs the effects whose dependencies changed.      *)
(*                                                                         *)
(* Scene.  published holds, for each cubie, the position and quaternion of *)
(* its scene object (cubieRefs), which the frame callback writes.  A turn  *)
(* by a part of a quarter turn is not computed: it is kept as the value    *)
(* turned, the face turned about and the eased angle (PartialTurn).        *)
(*                                                                         *)
(* Variant.  src/unnamed/part_001 is a second version of the component     *)
(* with an overshoot at the end of each turn.  It has its own variables    *)
(* (overshoot...) and its own specification, SpecOvershoot; commitCount    *)
(* and lastCommitFace count its commits as they count those of Cube.tsx.   *)
(* overshootPc tells which component a behaviour is of.                    *)
(***************************************************************************)
EXTENDS Integers, Sequences, FiniteSets, TLC

VARIABLES
    cubiePositions,          \* useState: cubies as seen by the last render
    rotationState,           \* useState: animation state as seen by the last render
    pendingCubiePositions,   \* React state after the queued setCubiePositions
    pendingRotationState,    \* React state after the queued setRotationState updaters
    initTimer,               \* setTimeout of the init effect is pending
    rotationPauseTimers,     \* number of pending setTimeout(startNextRotation, 1500)
    sequencePauseTimer,      \* setTimeout of the sequence pause effect is pending
    commitCount,             \* history: number of setCubiePositions(rotateLayer(..)) calls
    lastCommitFace,          \* history: face of the last commit ("NONE" before the first)
    published,               \* cubieRefs: position and quaternion of each scene object
    snapArg,                 \* snapToGrid harness: the vector given
    snapOnce,                \* snapToGrid harness: snapToGrid(snapArg)
    snapTwice,               \* snapToGrid harness: snapToGrid(snapToGrid(snapArg))
    snapPc,                  \* snapToGrid harness: "off", "arg", "once", "twice"
    easeS,                   \* easeInOutCubic harness: the smaller argument, over EaseResolution
    easeT,                   \* easeInOutCubic harness: the larger argument, over EaseResolution
    easeOfS,                 \* easeInOutCubic harness: easeInOutCubic(easeS)
    easeOfT,                 \* easeInOutCubic harness: easeInOutCubic(easeT)
    easePc,                  \* easeInOutCubic harness: "off", "args", "done"
    overshootCubies,         \* overshoot variant: cubiePositions as seen by the last render
    overshootRotation,       \* overshoot variant: rotationState as seen by the last render
    overshootPendingCubies,  \* overshoot variant: React state after setCubiePositions
    overshootPendingRotation,\* overshoot variant: React state after updateRotationState
    overshootPauseTimers,    \* overshoot variant: pending setTimeout(startNextRotation, 1000),
                             \* each with the sequenceIndex its closure captured, oldest first
    overshootSequenceTimers, \* overshoot variant: number of pending timers of a sequence pause
    overshootPublished,      \* overshoot variant: position and quaternion of each scene object
    overshootAngle,          \* overshoot variant: angleToRotate of the last frame of a turn
    overshootPc              \* overshoot variant: "off", "on"

vars == << cubiePositions, rotationState, pendingCubiePositions, pendingRotationState,
           initTimer, rotationPauseTimers, sequencePauseTimer,
           commitCount, lastCommitFace, published, snapArg, snapOnce, snapTwice,
           snapPc, easeS, easeT, easeOfS, easeOfT, easePc,
           overshootCubies, overshootRotation, overshootPendingCubies,
           overshootPendingRotation, overshootPauseTimers, overshootSequenceTimers,
           overshootPublished, overshootAngle, overshootPc >>

engineVars == << cubiePositions, rotationState, pendingCubiePositions,
                 pendingRotationState, initTimer, rotationPauseTimers,
                 sequencePauseTimer, commitCount, lastCommitFace, published >>

snapVars == << snapArg, snapOnce, snapTwice, snapPc >>

easeVars == << easeS, easeT, easeOfS, easeOfT, easePc >>

overshootVars == << overshootCubies, overshootRotation, overshootPendingCubies,
                    overshootPendingRotation, overshootPauseTimers,
                    overshootSequenceTimers, overshootPublished, overshootAngle,
                    overshootPc >>

harnessVars == << snapVars, easeVars, overshootVars >>

-----------------------------------------------------------------------------
(* Bounds of the model *)

\* commits explored from the fresh cube
MaxCommits == 14

\* largest rounding residue of a rotated component, in units (below EPSILON)
MaxDrift == 1

\* frame deltas are 0..MaxDeltaSteps steps of DeltaStep hundredths of a second
MaxDeltaSteps == 4

DeltaStep == 25

\* a host that passes negative deltas can take progress down to
\* -MaxRewindSteps steps of DeltaStep
MaxRewindSteps == 2

\* completing frames among which frames on a stale closure are explored
MaxStaleCommits == 2

\* commits of the overshoot variant explored from the fresh cube
MaxOvershootCommits == 8

\* commits of the overshoot variant at which every rounding residue is explored
MaxDriftCommits == 1

\* the easeInOutCubic harness draws its arguments from 0..EaseResolution over
\* EaseResolution
EaseResolution == 40

-----------------------------------------------------------------------------
(* Constants of the program *)

\* EPSILON = 0.000000001, in units of 0.5e-9
EPSILON == 2

\* the number 1.0 in units: 1.0 is 10^9 times EPSILON
One == EPSILON * 1000000000

\* CUBE_SIZE = 1.0
CUBE_SIZE == One

\* CUBE_GAP = 0.00001
CUBE_GAP == One \div 100000

\* rotationSpeed = 0.85 seconds, in hundredths of a second
rotationSpeed == 85

Faces == {"TOP", "RIGHT", "BOTTOM", "LEFT", "FRONT", "BACK"}

ROTATION_AXES ==
    [ TOP    |-> << 0, 1, 0 >>,
      RIGHT  |-> << 1, 0, 0 >>,
      BOTTOM |-> << 0, -1, 0 >>,
      LEFT   |-> << -1, 0, 0 >>,
      FRONT  |-> << 0, 0, 1 >>,
      BACK   |-> << 0, 0, -1 >> ]

\* faulty variant of ROTATION_DIRECTIONS: one sign for every face
ROTATION_DIRECTIONSUniform ==
    [ RIGHT |-> 1, LEFT |-> 1, TOP |-> 1, BOTTOM |-> 1, FRONT |-> 1, BACK |-> 1 ]

ROTATION_DIRECTIONS ==
    [ RIGHT |-> 1, LEFT |-> -1, TOP |-> 1, BOTTOM |-> -1, FRONT |-> 1, BACK |-> -1 ]

LAYER_INDICES ==
    [ RIGHT  |-> [axis |-> "x", value |-> 1],
      LEFT   |-> [axis |-> "x", value |-> -1],
      TOP    |-> [axis |-> "y", value |-> 1],
      BOTTOM |-> [axis |-> "y", value |-> -1],
      FRONT  |-> [axis |-> "z", value |-> 1],
      BACK   |-> [axis |-> "z", value |-> -1] ]

ROTATION_SEQUENCE == << "RIGHT", "FRONT", "BACK", "LEFT", "TOP", "BOTTOM" >>

\* { x: 0, y: 1, z: 2 }[axis], as a position in a 1-based tuple
AxisIndex(axis) == CASE axis = "x" -> 1 [] axis = "y" -> 2 [] axis = "z" -> 3

-----------------------------------------------------------------------------
(* Arithmetic helpers *)

Abs(n) == IF n < 0 THEN -n ELSE n

\* Math.sign
Sign(n) == IF n > 0 THEN 1 ELSE IF n < 0 THEN -1 ELSE 0

\* faulty variant of Round: Math.floor in place of Math.round
RoundDown(a) == (a \div One) * One

\* Math.round of a non-negative fixed-point number: floor(a + 0.5), in units
Round(a) ==
    LET q == a \div One
        r == a % One
    IN  IF r >= One \div 2 THEN (q + 1) * One ELSE q * One

-----------------------------------------------------------------------------
(* THREE.Vector3: a tuple << x, y, z >> of fixed-point numbers, built *)
(* component by component                                             *)

VAdd(u, v) == [c \in 1..3 |-> u[c] + v[c]]

VSub(u, v) == [c \in 1..3 |-> u[c] - v[c]]

VScale(k, v) == [c \in 1..3 |-> k * v[c]]

\* a . v for an axis a with components in {-1, 0, 1}
Dot(a, v) == a[1] * v[1] + a[2] * v[2] + a[3] * v[3]

\* a x v for an axis a with components in {-1, 0, 1}
Cross(a, v) ==
    [c \in 1..3 |-> a[(c % 3) + 1] * v[((c + 1) % 3) + 1]
                      - a[((c + 1) % 3) + 1] * v[(c % 3) + 1]]

(* Angles are counted in quarter turns: Math.PI / 2 is 1, and angle * direction *)
(* is -1, 0 or 1.                                                               *)
CosQ(quarters) == IF quarters = 0 THEN 1 ELSE 0

SinQ(quarters) == quarters

\* the rounding residue the doubles leave in component c of cubie index, for drift e
Residue(e, index) == [c \in 1..3 |-> e * (((index + c) % 3) - 1)]

\* faulty variant of ApplyAxisAngle: the turn goes the other way (sin negated)
ApplyAxisAngleReversed(v, axis, quarters, residue) ==
    [c \in 1..3 |->
        CosQ(quarters) * v[c]
          + (0 - SinQ(quarters)) * Cross(axis, v)[c]
          + (1 - CosQ(quarters)) * Dot(axis, v) * axis[c]
          + (IF quarters = 0 THEN 0 ELSE residue[c])]

\* faulty variant of ApplyAxisAngle: the component along the axis is lost
ApplyAxisAngleNoAxisTerm(v, axis, quarters, residue) ==
    [c \in 1..3 |->
        CosQ(quarters) * v[c]
          + SinQ(quarters) * Cross(axis, v)[c]
          + (IF quarters = 0 THEN 0 ELSE residue[c])]

(* Vector3.applyAxisAngle(axis, angle): Rodrigues' formula                       *)
(*   v cos(t) + (a x v) sin(t) + a (a . v) (1 - cos(t))                          *)
(* for a unit axis a, followed by the rounding residue of the double arithmetic. *)
ApplyAxisAngle(v, axis, quarters, residue) ==
    [c \in 1..3 |->
        CosQ(quarters) * v[c]
          + SinQ(quarters) * Cross(axis, v)[c]
          + (1 - CosQ(quarters)) * Dot(axis, v) * axis[c]
          + (IF quarters = 0 THEN 0 ELSE residue[c])]

-----------------------------------------------------------------------------
(* THREE.Quaternion: a tuple << x, y, z, w >>.  Every orientation the cube     *)
(* reaches is a product of quarter-turn quaternions, whose components lie in   *)
(* {0, +-1/2, +-sqrt(2)/2, +-1}: a component is a pair << a, b >> standing for *)
(* (a + b sqrt(2)) / 2.                                                        *)

\* new THREE.Quaternion(): the identity (0, 0, 0, 1)
QIdentity == << << 0, 0 >>, << 0, 0 >>, << 0, 0 >>, << 2, 0 >> >>

\* (p1 + p2 sqrt2)(q1 + q2 sqrt2), the numerator of a product of two components
SMul(p, q) == << p[1] * q[1] + 2 * p[2] * q[2], p[1] * q[2] + p[2] * q[1] >>

SAdd(p, q) == << p[1] + q[1], p[2] + q[2] >>

SNeg(p) == << -p[1], -p[2] >>

\* a sum of products of two components has denominator 4: back to denominator 2
SHalf(p) == << p[1] \div 2, p[2] \div 2 >>

\* Quaternion.setFromAxisAngle(axis, angle): (axis sin(angle/2), cos(angle/2))
SetFromAxisAngle(axis, quarters) ==
    LET s == IF quarters = 0 THEN << 0, 0 >> ELSE << 0, quarters >>
        c == IF quarters = 0 THEN << 2, 0 >> ELSE << 0, 1 >>
    IN  << << axis[1] * s[1], axis[1] * s[2] >>,
           << axis[2] * s[1], axis[2] * s[2] >>,
           << axis[3] * s[1], axis[3] * s[2] >>,
           c >>

\* Quaternion.multiplyQuaternions(a, b)
QMul(a, b) ==
    << SHalf(SAdd(SAdd(SMul(a[1], b[4]), SMul(a[4], b[1])),
                  SAdd(SMul(a[2], b[3]), SNeg(SMul(a[3], b[2]))))),
       SHalf(SAdd(SAdd(SMul(a[2], b[4]), SMul(a[4], b[2])),
                  SAdd(SMul(a[3], b[1]), SNeg(SMul(a[1], b[3]))))),
       SHalf(SAdd(SAdd(SMul(a[3], b[4]), SMul(a[4], b[3])),
                  SAdd(SMul(a[1], b[2]), SNeg(SMul(a[2], b[1]))))),
       SHalf(SAdd(SAdd(SMul(a[4], b[4]), SNeg(SMul(a[1], b[1]))),
                  SAdd(SNeg(SMul(a[2], b[2])), SNeg(SMul(a[3], b[3]))))) >>

\* q.premultiply(r): q becomes r * q
Premultiply(q, r) == QMul(r, q)

-----------------------------------------------------------------------------
(* Grid State *)

\* getTargetPositions: x, y, z from -1 to 1 in loop order, the centre skipped
getTargetPositions ==
    LET all == [k \in 1..27 |-> << ((k - 1) \div 9) - 1,
                                   (((k - 1) \div 3) % 3) - 1,
                                   ((k - 1) % 3) - 1 >>]
    IN  SelectSeq(all, LAMBDA p : ~(p[1] = 0 /\ p[2] = 0 /\ p[3] = 0))

\* [x, y, z].filter(coord => coord === 0).length
ZeroCount(p) ==
    (IF p[1] = 0 THEN 1 ELSE 0) + (IF p[2] = 0 THEN 1 ELSE 0) + (IF p[3] = 0 THEN 1 ELSE 0)

\* initialCubiePositions (cubie i of the code is cubie i + 1 here)
initialCubiePositions ==
    [i \in 1..Len(getTargetPositions) |->
        LET pos == getTargetPositions[i]
        IN  [ position   |-> VScale(CUBE_SIZE + CUBE_GAP, pos),
              indices    |-> VScale(One, pos),
              quaternion |-> QIdentity,
              type       |-> IF ZeroCount(pos) = 1 THEN "edge"
                             ELSE IF ZeroCount(pos) = 2 THEN "center"
                             ELSE "corner" ]]

\* getFaceCenter
getFaceCenter(face) ==
    LET axis  == LAYER_INDICES[face].axis
        value == LAYER_INDICES[face].value
    IN  [c \in 1..3 |-> IF c = AxisIndex(axis) THEN value * (CUBE_SIZE + CUBE_GAP) ELSE 0]

\* Math.abs(a - b) < EPSILON, written without the difference a - b, which for
\* a = -1.0 and b = 1.0 does not fit in 32 bits
Near(a, b) == a - EPSILON < b /\ b - EPSILON < a

\* getCubiesInLayer, over the cubies of the closure: the indices kept, in order
getCubiesInLayer(cubies, face) ==
    LET axisIndex == AxisIndex(LAYER_INDICES[face].axis)
        value     == LAYER_INDICES[face].value * One
    IN  SelectSeq([i \in 1..Len(cubies) |-> i],
                  LAMBDA i : Near(cubies[i].indices[axisIndex], value))

\* Array.includes
Includes(seq, x) == \E k \in 1..Len(seq) : seq[k] = x

\* faulty variant of SnapComponent: Math.round(v) in place of Math.round(Math.abs(v))
SnapComponentNoAbs(c) == IF Abs(c) < EPSILON THEN 0 ELSE Sign(c) * Round(c)

\* one component of snapToGrid
SnapComponent(c) == IF Abs(c) < EPSILON THEN 0 ELSE Sign(c) * Round(Abs(c))

\* faulty variant of snapToGrid: nothing is snapped
snapToGridIdentity(vec) == vec

\* snapToGrid
snapToGrid(vec) == << SnapComponent(vec[1]), SnapComponent(vec[2]), SnapComponent(vec[3]) >>

\* calculateLayerRotation(face, angle), over the cubies of the closure
calculateLayerRotation(cubies, face, angle, drift) ==
    LET cubiesInLayer == getCubiesInLayer(cubies, face)
        axis          == ROTATION_AXES[face]
        direction     == ROTATION_DIRECTIONS[face]
        centerPoint   == getFaceCenter(face)
        rotationQuat  == SetFromAxisAngle(axis, angle * direction)
    IN  [index \in 1..Len(cubies) |->
            IF ~Includes(cubiesInLayer, index)
            THEN cubies[index]
            ELSE [ cubies[index] EXCEPT
                     !.position = VAdd(ApplyAxisAngle(VSub(@, centerPoint), axis,
                                                      angle * direction,
                                                      Residue(drift, index)),
                                       centerPoint),
                     !.indices = ApplyAxisAngle(@, axis, angle * direction,
                                                Residue(drift, index)),
                     !.quaternion = Premultiply(@, rotationQuat) ]]

\* faulty variant of rotateLayer: only the position is snapped
rotateLayerPositionOnly(cubies, face, drift) ==
    LET rotatedPositions == calculateLayerRotation(cubies, face, 1, drift)
    IN  [i \in 1..Len(rotatedPositions) |->
            [ rotatedPositions[i] EXCEPT !.position = snapToGrid(@) ]]

\* rotateLayer(face): a full quarter turn, position and indices snapped
rotateLayer(cubies, face, drift) ==
    LET rotatedPositions == calculateLayerRotation(cubies, face, 1, drift)
    IN  [i \in 1..Len(rotatedPositions) |->
            [ rotatedPositions[i] EXCEPT
                !.position = snapToGrid(@),
                !.indices = snapToGrid(@) ]]

-----------------------------------------------------------------------------
(* Easing and the published transforms *)

\* faulty variant of easeInOutCubic: 8 * t * t * t in the first branch
easeInOutCubicSteep(k, n) ==
    IF 2 * k < n
    THEN 8 * k * k * k
    ELSE n * n * n - 4 * (n - k) * (n - k) * (n - k)

\* easeInOutCubic(t) for t = k / n, as a numerator over n * n * n:
\* 4 t^3 is 4 k^3 / n^3, and 1 - (-2 t + 2)^3 / 2 is (n^3 - 4 (n - k)^3) / n^3
easeInOutCubic(k, n) ==
    IF 2 * k < n
    THEN 4 * k * k * k
    ELSE n * n * n - 4 * (n - k) * (n - k) * (n - k)

(* A part of a scene object's transform (its position or its quaternion): *)
(* the value base, turned about the axis of face about (for a position,   *)
(* through getFaceCenter(about)) by angle, in the units of the frame that *)
(* turned it (in Cube.tsx, quarter turns times rotationSpeed cubed).  A   *)
(* turn by the angle 0 is no turn: about is "NONE".                       *)
PartialTurn(base, face, angle) ==
    IF angle = 0
    THEN [ base |-> base, about |-> "NONE", angle |-> 0 ]
    ELSE [ base |-> base, about |-> face, angle |-> angle ]

\* a scene object holding a cubie's position and quaternion as they are
Unturned(position, quaternion) ==
    [ position   |-> PartialTurn(position, "NONE", 0),
      quaternion |-> PartialTurn(quaternion, "NONE", 0) ]

\* faulty variant of calculateLayerRotationPartial: the layer, axis and pivot of TOP
calculateLayerRotationOfTop(cubies, face, angle) ==
    LET cubiesInLayer == getCubiesInLayer(cubies, "TOP")
        direction     == ROTATION_DIRECTIONS["TOP"]
    IN  [index \in 1..Len(cubies) |->
            IF ~Includes(cubiesInLayer, index)
            THEN Unturned(cubies[index].position, cubies[index].quaternion)
            ELSE [ position   |-> PartialTurn(cubies[index].position, "TOP",
                                              angle * direction),
                   quaternion |-> PartialTurn(cubies[index].quaternion, "TOP",
                                              angle * direction) ]]

\* calculateLayerRotation(face, angle) for the angle of a frame inside a turn,
\* the turned vectors and quaternions kept as PartialTurn records
calculateLayerRotationPartial(cubies, face, angle) ==
    LET cubiesInLayer == getCubiesInLayer(cubies, face)
        direction     == ROTATION_DIRECTIONS[face]
    IN  [index \in 1..Len(cubies) |->
            IF ~Includes(cubiesInLayer, index)
            THEN Unturned(cubies[index].position, cubies[index].quaternion)
            ELSE [ position   |-> PartialTurn(cubies[index].position, face,
                                              angle * direction),
                   quaternion |-> PartialTurn(cubies[index].quaternion, face,
                                              angle * direction) ]]

\* faulty variant of calculateLayerRotationInput: the vectors of the layer's
\* cubies are turned without clone() (a turn by any angle but 0 is shown as
\* the quarter turn)
calculateLayerRotationInPlace(cubies, face, angle) ==
    IF angle = 0 THEN cubies ELSE calculateLayerRotation(cubies, face, 1, 0)

\* the array calculateLayerRotation has read, once it has returned: position,
\* indices and quaternion of a layer cubie are cloned before they are turned,
\* and the other cubies are spread into new objects
calculateLayerRotationInput(cubies, face, angle) == cubies

-----------------------------------------------------------------------------
(* Animation State Machine *)

\* ROTATION_SEQUENCE[i] for the 0-based index i of the code
SequenceFace(i) == ROTATION_SEQUENCE[i + 1]

\* useState initial value of rotationState (null is "NONE"; progress is kept
\* multiplied by rotationDuration, in hundredths of a second)
initialRotationState ==
    [ isRotating      |-> FALSE,
      currentFace     |-> "NONE",
      progress        |-> 0,
      sequenceIndex   |-> 0,
      inSequencePause |-> FALSE,
      inRotationPause |-> FALSE ]

\* faulty variant of startNextRotation: sequenceIndex is not stored
startNextRotationKeepsIndex(prev) ==
    LET newSequenceIndex == (prev.sequenceIndex + 1) % Len(ROTATION_SEQUENCE)
    IN  IF newSequenceIndex = 0 /\ ~prev.inSequencePause
        THEN [ prev EXCEPT !.inRotationPause = FALSE, !.inSequencePause = TRUE ]
        ELSE [ prev EXCEPT !.isRotating = TRUE,
                           !.currentFace = SequenceFace(newSequenceIndex),
                           !.progress = 0,
                           !.inRotationPause = FALSE,
                           !.inSequencePause = FALSE ]

\* the updater given to setRotationState by startNextRotation
startNextRotation(prev) ==
    LET newSequenceIndex == (prev.sequenceIndex + 1) % Len(ROTATION_SEQUENCE)
    IN  IF newSequenceIndex = 0 /\ ~prev.inSequencePause
        THEN [ prev EXCEPT !.inRotationPause = FALSE, !.inSequencePause = TRUE ]
        ELSE [ prev EXCEPT !.isRotating = TRUE,
                           !.currentFace = SequenceFace(newSequenceIndex),
                           !.sequenceIndex = newSequenceIndex,
                           !.progress = 0,
                           !.inRotationPause = FALSE,
                           !.inSequencePause = FALSE ]

\* faulty variant of initRotationUpdate: the second face of the sequence
initRotationUpdateSecond(prev) ==
    [ prev EXCEPT !.isRotating = TRUE, !.currentFace = SequenceFace(1) ]

\* the updater of the init effect's timer
initRotationUpdate(prev) ==
    [ prev EXCEPT !.isRotating = TRUE, !.currentFace = SequenceFace(0) ]

\* faulty variant of sequencePauseUpdate: isRotating is not set
sequencePauseUpdateIdle(prev) ==
    [ prev EXCEPT !.currentFace = SequenceFace(0),
                  !.sequenceIndex = 0,
                  !.inSequencePause = FALSE ]

\* faulty variant of sequencePauseUpdate: sequenceIndex is not reset
sequencePauseUpdateKeepsIndex(prev) ==
    [ prev EXCEPT !.isRotating = TRUE,
                  !.currentFace = SequenceFace(0),
                  !.inSequencePause = FALSE ]

\* the updater of the sequence pause effect's timer
sequencePauseUpdate(prev) ==
    [ prev EXCEPT !.isRotating = TRUE,
                  !.currentFace = SequenceFace(0),
                  !.sequenceIndex = 0,
                  !.inSequencePause = FALSE ]

\* faulty variant of completionUpdate: progress is not reset
completionUpdateKeepsProgress(prev) ==
    [ prev EXCEPT !.isRotating = FALSE, !.inRotationPause = TRUE ]

\* faulty variant of completionUpdate: the completing frame advances sequenceIndex itself
completionUpdateAdvances(prev) ==
    [ prev EXCEPT !.isRotating = FALSE, !.inRotationPause = TRUE, !.progress = 0,
                  !.sequenceIndex = (@ + 1) % Len(ROTATION_SEQUENCE) ]

\* faulty variant of completionUpdate: isRotating is left true
completionUpdateStillRotating(prev) ==
    [ prev EXCEPT !.inRotationPause = TRUE, !.progress = 0 ]

\* the updater of a completing frame
completionUpdate(prev) ==
    [ prev EXCEPT !.isRotating = FALSE, !.inRotationPause = TRUE, !.progress = 0 ]

\* faulty variant of progressUpdate: newProgress is added to the stored progress
progressUpdateAdds(prev, newProgress) == [ prev EXCEPT !.progress = @ + newProgress ]

\* the updater of a frame that does not complete the turn
progressUpdate(prev, newProgress) == [ prev EXCEPT !.progress = newProgress ]

Min(a, b) == IF a < b THEN a ELSE b

\* the frame deltas the host passes, in hundredths of a second
Deltas == { k * DeltaStep : k \in 0..MaxDeltaSteps }

Drifts == (0 - MaxDrift)..MaxDrift

\* React has applied every queued update: the closures see the current state
Flushed ==
    /\ rotationState = pendingRotationState
    /\ cubiePositions = pendingCubiePositions

(* The state after the component has mounted: the init effect has set the *)
(* cubies and started its timer, and every Cubie group has its position   *)
(* prop and the default quaternion.                                       *)
EngineInit ==
    /\ cubiePositions = initialCubiePositions
    /\ pendingCubiePositions = initialCubiePositions
    /\ rotationState = initialRotationState
    /\ pendingRotationState = initialRotationState
    /\ initTimer = TRUE
    /\ rotationPauseTimers = 0
    /\ sequencePauseTimer = FALSE
    /\ commitCount = 0
    /\ lastCommitFace = "NONE"
    /\ published = [i \in 1..Len(initialCubiePositions) |->
                        Unturned(initialCubiePositions[i].position, QIdentity)]

\* the snapToGrid harness is not running
SnapOff ==
    /\ snapArg = << 0, 0, 0 >>
    /\ snapOnce = << 0, 0, 0 >>
    /\ snapTwice = << 0, 0, 0 >>
    /\ snapPc = "off"

\* the easeInOutCubic harness is not running
EaseOff ==
    /\ easeS = 0
    /\ easeT = 0
    /\ easeOfS = 0
    /\ easeOfT = 0
    /\ easePc = "off"

\* the overshoot variant is not mounted
OvershootOff ==
    /\ overshootCubies = << >>
    /\ overshootRotation = initialRotationState
    /\ overshootPendingCubies = << >>
    /\ overshootPendingRotation = initialRotationState
    /\ overshootPauseTimers = << >>
    /\ overshootSequenceTimers = 0
    /\ overshootPublished = << >>
    /\ overshootAngle = 0
    /\ overshootPc = "off"

Init == EngineInit /\ SnapOff /\ EaseOff /\ OvershootOff

\* the timer of the init effect fires
InitTimerFires ==
    /\ initTimer
    /\ initTimer' = FALSE
    /\ pendingRotationState' = initRotationUpdate(pendingRotationState)
    /\ UNCHANGED << cubiePositions, rotationState, pendingCubiePositions,
                    rotationPauseTimers, sequencePauseTimer, commitCount,
                    lastCommitFace, published, harnessVars >>

\* a timer set by a completing frame fires: startNextRotation()
RotationPauseTimerFires ==
    /\ rotationPauseTimers > 0
    /\ rotationPauseTimers' = rotationPauseTimers - 1
    /\ pendingRotationState' = startNextRotation(pendingRotationState)
    /\ UNCHANGED << cubiePositions, rotationState, pendingCubiePositions, initTimer,
                    sequencePauseTimer, commitCount, lastCommitFace, published, harnessVars >>

\* the timer of the sequence pause effect fires
SequencePauseTimerFires ==
    /\ sequencePauseTimer
    /\ sequencePauseTimer' = FALSE
    /\ pendingRotationState' = sequencePauseUpdate(pendingRotationState)
    /\ UNCHANGED << cubiePositions, rotationState, pendingCubiePositions, initTimer,
                    rotationPauseTimers, commitCount, lastCommitFace, published, harnessVars >>

(* React re-renders: the closures take the pending state, and the sequence    *)
(* pause effect, whose dependency is rotationState.inSequencePause, cleans up *)
(* (clearTimeout) and runs again when that flag has changed.  Every Cubie of  *)
(* a new cubiePositions array is given a new Vector3 as its position prop,    *)
(* which the group copies; the quaternion is not a prop.                      *)
Render ==
    /\ ~Flushed
    /\ rotationState' = pendingRotationState
    /\ cubiePositions' = pendingCubiePositions
    /\ sequencePauseTimer' =
          IF pendingRotationState.inSequencePause = rotationState.inSequencePause
          THEN sequencePauseTimer
          ELSE pendingRotationState.inSequencePause
    /\ published' =
          IF pendingCubiePositions = cubiePositions
          THEN published
          ELSE [i \in 1..Len(published) |->
                   [ published[i] EXCEPT
                       !.position = PartialTurn(pendingCubiePositions[i].position,
                                                "NONE", 0) ]]
    /\ UNCHANGED << pendingRotationState, pendingCubiePositions, initTimer,
                    rotationPauseTimers, commitCount, lastCommitFace, harnessVars >>

\* the useFrame callback completes the turn: rotateLayer, setCubiePositions,
\* the final transforms copied to the layer's scene objects, setRotationState,
\* setTimeout(startNextRotation); counted is the commit count once it is done
FrameCompletes(face, counted) ==
    /\ counted <= MaxCommits
    /\ \E drift \in Drifts :
       \E finalPositions \in { rotateLayer(cubiePositions, face, drift) } :
          /\ pendingCubiePositions' = finalPositions
          /\ published' =
                [index \in 1..Len(published) |->
                    IF Includes(getCubiesInLayer(cubiePositions, face), index)
                    THEN Unturned(finalPositions[index].position,
                                  finalPositions[index].quaternion)
                    ELSE published[index]]
    /\ pendingRotationState' = completionUpdate(pendingRotationState)
    /\ rotationPauseTimers' = rotationPauseTimers + 1
    /\ commitCount' = counted
    /\ lastCommitFace' = face
    /\ cubiePositions' = calculateLayerRotationInput(cubiePositions, face,
                                                     rotationSpeed * rotationSpeed
                                                        * rotationSpeed)
    /\ UNCHANGED << rotationState, initTimer, sequencePauseTimer, harnessVars >>

\* the useFrame callback advances the turn: the layer's scene objects take the
\* transforms turned by the eased angle, and the new progress is stored
FrameAdvances(face, progress, newProgress) ==
    /\ LET angleToRotate    == easeInOutCubic(progress, rotationSpeed)
           rotatedPositions == calculateLayerRotationPartial(cubiePositions, face,
                                                             angleToRotate)
           cubiesInLayer    == getCubiesInLayer(cubiePositions, face)
       IN  published' = [index \in 1..Len(published) |->
                            IF Includes(cubiesInLayer, index)
                            THEN rotatedPositions[index]
                            ELSE published[index]]
    /\ pendingRotationState' = progressUpdate(pendingRotationState, newProgress)
    /\ cubiePositions' = calculateLayerRotationInput(
                             cubiePositions, face,
                             easeInOutCubic(progress, rotationSpeed))
    /\ UNCHANGED << rotationState, pendingCubiePositions, initTimer,
                    rotationPauseTimers, sequencePauseTimer, commitCount,
                    lastCommitFace, harnessVars >>

\* faulty variant of Frame: a completing frame whose delta alone is a whole
\* rotation duration counts a second commit
FrameCarriesOver(delta, counted) ==
    IF rotationState.isRotating /\ rotationState.currentFace # "NONE"
    THEN LET face        == rotationState.currentFace
             newProgress == rotationState.progress + delta
             progress    == Min(newProgress, rotationSpeed)
         IN  IF progress >= rotationSpeed
             THEN FrameCompletes(face, IF delta >= rotationSpeed
                                       THEN counted + 1
                                       ELSE counted)
             ELSE FrameAdvances(face, progress, newProgress)
    ELSE UNCHANGED vars

(* The useFrame callback, called with delta.  The spin of the whole group    *)
(* (groupRef.current.rotation) turns every cubie alike and is left out: the  *)
(* transforms published are those of the cubies inside the group.            *)
Frame(delta, counted) ==
    IF rotationState.isRotating /\ rotationState.currentFace # "NONE"
    THEN LET face        == rotationState.currentFace
             newProgress == rotationState.progress + delta
             progress    == Min(newProgress, rotationSpeed)
         IN  IF progress >= rotationSpeed
             THEN FrameCompletes(face, counted)
             ELSE FrameAdvances(face, progress, newProgress)
    ELSE UNCHANGED vars

\* a frame of the host's render loop, React having flushed the queued updates
FrameTick == \E delta \in Deltas : Flushed /\ Frame(delta, commitCount + 1)

Next ==
    \/ InitTimerFires
    \/ RotationPauseTimerFires
    \/ SequencePauseTimerFires
    \/ Render
    \/ FrameTick

Spec == Init /\ [][Next]_vars

-----------------------------------------------------------------------------
(* The cube left running: the host calls the frame callback again and again *)
(* with a positive delta, every timer set fires, and React renders every    *)
(* queued update.                                                           *)

\* a frame of the host's render loop, time having passed since the last one
FrameTickPositive ==
    \E delta \in Deltas \ {0} : Flushed /\ Frame(delta, commitCount + 1)

SpecLive ==
    /\ Init
    /\ [][Next]_vars
    /\ WF_vars(FrameTickPositive)
    /\ WF_vars(InitTimerFires)
    /\ WF_vars(RotationPauseTimerFires)
    /\ WF_vars(SequencePauseTimerFires)
    /\ WF_vars(Render)

-----------------------------------------------------------------------------
(* A host whose clock can step back: the frame callback is called with *)
(* deltas of either sign.                                               *)

SignedDeltas == Deltas \cup { 0 - delta : delta \in Deltas }

\* a frame of the host's render loop, of a positive, zero or negative delta
FrameTickSigned ==
    \E delta \in SignedDeltas :
        /\ Flushed
        /\ rotationState.progress + delta >= 0 - (MaxRewindSteps * DeltaStep)
        /\ Frame(delta, commitCount + 1)

NextSigned ==
    \/ InitTimerFires
    \/ RotationPauseTimerFires
    \/ SequencePauseTimerFires
    \/ Render
    \/ FrameTickSigned

SpecSigned == Init /\ [][NextSigned]_vars

-----------------------------------------------------------------------------
(* The overshoot variant of the component (src/unnamed/part_001), which   *)
(* the application does not mount.  Its grid functions are those of       *)
(* Cube.tsx with its own CUBE_GAP, EPSILON and rotation signs, and its    *)
(* rotateLayer snaps the indices only.  Angles of a frame inside a turn   *)
(* are in degrees times rotationDuration cubed (the denominator of        *)
(* easeInOutCubic); progress is kept multiplied by rotationDuration, in   *)
(* hundredths of a second.                                                *)

\* EPSILON = 0.0000001
OvershootEpsilon == 200

\* CUBE_GAP = 0.000001
OvershootGap == One \div 1000000

\* rotationDuration = 0.8, in hundredths of a second
rotationDuration == 80

\* baseRotation = Math.PI / 2, in degrees
baseRotation == 90

\* overshootAmount = degToRad(3), in degrees
overshootAmount == 3

Cubed(n) == n * n * n

\* ROTATION_DIRECTIONS of the overshoot variant
OvershootDirections ==
    [ RIGHT |-> 1, LEFT |-> 1, TOP |-> 1, BOTTOM |-> 1, FRONT |-> 1, BACK |-> 1 ]

\* initialCubiePositions
initialCubiePositionsOvershoot ==
    [i \in 1..Len(getTargetPositions) |->
        LET pos == getTargetPositions[i]
        IN  [ position   |-> VScale(CUBE_SIZE + OvershootGap, pos),
              indices    |-> VScale(One, pos),
              quaternion |-> QIdentity,
              type       |-> IF ZeroCount(pos) = 1 THEN "edge"
                             ELSE IF ZeroCount(pos) = 2 THEN "center"
                             ELSE "corner" ]]

\* getFaceCenter
getFaceCenterOvershoot(face) ==
    [c \in 1..3 |-> IF c = AxisIndex(LAYER_INDICES[face].axis)
                    THEN LAYER_INDICES[face].value * (CUBE_SIZE + OvershootGap)
                    ELSE 0]

\* getCubiesInLayer: Math.abs(indices[axisIndex] - value) < EPSILON
getCubiesInLayerOvershoot(cubies, face) ==
    LET axisIndex == AxisIndex(LAYER_INDICES[face].axis)
        value     == LAYER_INDICES[face].value * One
    IN  SelectSeq([i \in 1..Len(cubies) |-> i],
                  LAMBDA i : /\ cubies[i].indices[axisIndex] - OvershootEpsilon < value
                             /\ value - OvershootEpsilon < cubies[i].indices[axisIndex])

\* snapToGrid
snapToGridOvershoot(vec) ==
    [c \in 1..3 |-> IF Abs(vec[c]) < OvershootEpsilon
                    THEN 0
                    ELSE Sign(vec[c]) * Round(Abs(vec[c]))]

\* calculateLayerRotation(face, Math.PI / 2)
calculateLayerRotationOvershoot(cubies, face, drift) ==
    LET axis          == ROTATION_AXES[face]
        direction     == OvershootDirections[face]
        centerPoint   == getFaceCenterOvershoot(face)
        rotationQuat  == SetFromAxisAngle(axis, direction)
    IN  [index \in 1..Len(cubies) |->
            IF ~Includes(getCubiesInLayerOvershoot(cubies, face), index)
            THEN cubies[index]
            ELSE [ cubies[index] EXCEPT
                     !.position = VAdd(ApplyAxisAngle(VSub(@, centerPoint), axis,
                                                      direction, Residue(drift, index)),
                                       centerPoint),
                     !.indices = ApplyAxisAngle(@, axis, direction,
                                                Residue(drift, index)),
                     !.quaternion = Premultiply(@, rotationQuat) ]]

\* rotateLayer(face): a full quarter turn, the indices snapped
rotateLayerOvershoot(cubies, face, drift) ==
    [i \in 1..Len(cubies) |->
        [ calculateLayerRotationOvershoot(cubies, face, drift)[i] EXCEPT
            !.indices = snapToGridOvershoot(@) ]]

\* calculateLayerRotation(face, angle) for the angle of a frame, the turned
\* vectors and quaternions kept as PartialTurn records
calculateLayerRotationOvershootPartial(cubies, face, angle) ==
    [index \in 1..Len(cubies) |->
        IF ~Includes(getCubiesInLayerOvershoot(cubies, face), index)
        THEN Unturned(cubies[index].position, cubies[index].quaternion)
        ELSE [ position   |-> PartialTurn(cubies[index].position, face,
                                          angle * OvershootDirections[face]),
               quaternion |-> PartialTurn(cubies[index].quaternion, face,
                                          angle * OvershootDirections[face]) ]]

\* useState initial value of rotationState
initialRotationStateOvershoot ==
    [ isRotating      |-> FALSE,
      currentFace     |-> "NONE",
      progress        |-> 0,
      sequenceIndex   |-> 0,
      inSequencePause |-> FALSE,
      inRotationPause |-> FALSE,
      overshootPhase  |-> FALSE,
      overshootReturn |-> FALSE ]

\* updateRotationState of the frame that finds no turn and no pause
firstRotationUpdate(prev) ==
    [ prev EXCEPT !.isRotating = TRUE,
                  !.currentFace = SequenceFace(0),
                  !.progress = 0,
                  !.sequenceIndex = 0,
                  !.inSequencePause = FALSE,
                  !.inRotationPause = FALSE,
                  !.overshootPhase = FALSE,
                  !.overshootReturn = FALSE ]

\* faulty variant of enterOvershootUpdate: the frame of the initial phase
\* that reaches 1 goes straight to the return phase
enterOvershootUpdateSkips(prev) ==
    [ prev EXCEPT !.overshootReturn = TRUE, !.progress = 0 ]

\* updateRotationState of the frame of the initial phase that reaches 1
enterOvershootUpdate(prev) ==
    [ prev EXCEPT !.overshootPhase = TRUE, !.progress = 0 ]

\* updateRotationState of the frame of the overshoot phase that reaches 1
enterReturnUpdate(prev) ==
    [ prev EXCEPT !.overshootPhase = FALSE, !.overshootReturn = TRUE, !.progress = 0 ]

\* faulty variant of continueUpdate: a frame that enters a sub-phase
\* (newProgress >= 1) does not store its newProgress
continueUpdateInsidePhase(prev, newProgress) ==
    IF newProgress >= rotationDuration
    THEN prev
    ELSE [ prev EXCEPT !.progress = newProgress ]

\* updateRotationState({ progress: newProgress }) of a frame that does not
\* complete the turn
continueUpdate(prev, newProgress) == [ prev EXCEPT !.progress = newProgress ]

\* faulty variant of completionUpdateOvershoot: the sub-phase flags are not reset
completionUpdateOvershootKeepsPhase(prev) ==
    [ prev EXCEPT !.isRotating = FALSE, !.inRotationPause = TRUE, !.progress = 0 ]

\* updateRotationState of the frame that completes the turn
completionUpdateOvershoot(prev) ==
    [ prev EXCEPT !.isRotating = FALSE,
                  !.inRotationPause = TRUE,
                  !.progress = 0,
                  !.overshootPhase = FALSE,
                  !.overshootReturn = FALSE ]

\* startNextRotation, its closure having captured sequenceIndex: the update
\* it queues
startNextRotationOvershoot(prev, sequenceIndex) ==
    LET nextSequenceIndex == (sequenceIndex + 1) % Len(ROTATION_SEQUENCE)
    IN  IF nextSequenceIndex = 0
        THEN [ prev EXCEPT !.inRotationPause = FALSE,
                           !.inSequencePause = TRUE,
                           !.sequenceIndex = nextSequenceIndex ]
        ELSE [ prev EXCEPT !.isRotating = TRUE,
                           !.inRotationPause = FALSE,
                           !.sequenceIndex = nextSequenceIndex,
                           !.currentFace = SequenceFace(nextSequenceIndex),
                           !.progress = 0,
                           !.overshootPhase = FALSE,
                           !.overshootReturn = FALSE ]

\* the update of the timer startNextRotation sets at the end of the sequence
sequencePauseUpdateOvershoot(prev) ==
    [ prev EXCEPT !.isRotating = TRUE,
                  !.inSequencePause = FALSE,
                  !.currentFace = SequenceFace(0),
                  !.progress = 0,
                  !.overshootPhase = FALSE,
                  !.overshootReturn = FALSE ]

\* React has applied every queued update of the overshoot variant
FlushedOvershoot ==
    /\ overshootRotation = overshootPendingRotation
    /\ overshootCubies = overshootPendingCubies

\* the component of Cube.tsx is not mounted
EngineOff ==
    /\ cubiePositions = initialCubiePositions
    /\ pendingCubiePositions = initialCubiePositions
    /\ rotationState = initialRotationState
    /\ pendingRotationState = initialRotationState
    /\ initTimer = FALSE
    /\ rotationPauseTimers = 0
    /\ sequencePauseTimer = FALSE
    /\ commitCount = 0
    /\ lastCommitFace = "NONE"
    /\ published = [i \in 1..Len(initialCubiePositions) |->
                        Unturned(initialCubiePositions[i].position, QIdentity)]

(* The overshoot variant once mounted: its effect has set the cubies and the *)
(* refs, each scene object is a new group (at the origin, not turned), and   *)
(* no frame has run.                                                         *)
InitOvershoot ==
    /\ EngineOff
    /\ SnapOff
    /\ EaseOff
    /\ overshootCubies = initialCubiePositionsOvershoot
    /\ overshootPendingCubies = initialCubiePositionsOvershoot
    /\ overshootRotation = initialRotationStateOvershoot
    /\ overshootPendingRotation = initialRotationStateOvershoot
    /\ overshootPauseTimers = << >>
    /\ overshootSequenceTimers = 0
    /\ overshootPublished = [i \in 1..Len(initialCubiePositionsOvershoot) |->
                                 Unturned(<< 0, 0, 0 >>, QIdentity)]
    /\ overshootAngle = 0
    /\ overshootPc = "on"

\* what the overshoot variant leaves alone, its commits being counted in
\* commitCount and lastCommitFace
plainVars == << cubiePositions, rotationState, pendingCubiePositions,
               pendingRotationState, initTimer, rotationPauseTimers,
               sequencePauseTimer, published, snapVars, easeVars >>

\* the oldest setTimeout(startNextRotation, 1000) fires
OvershootPauseTimerFires ==
    /\ overshootPc = "on"
    /\ overshootPauseTimers # << >>
    /\ LET nextSequenceIndex ==
               (Head(overshootPauseTimers) + 1) % Len(ROTATION_SEQUENCE)
       IN  overshootSequenceTimers' =
               IF nextSequenceIndex = 0
               THEN overshootSequenceTimers + 1
               ELSE overshootSequenceTimers
    /\ overshootPendingRotation' =
          startNextRotationOvershoot(overshootPendingRotation,
                                     Head(overshootPauseTimers))
    /\ overshootPauseTimers' = Tail(overshootPauseTimers)
    /\ UNCHANGED << plainVars, commitCount, lastCommitFace, overshootCubies,
                    overshootRotation, overshootPendingCubies, overshootPublished,
                    overshootAngle, overshootPc >>

\* the timer of a sequence pause fires
OvershootSequenceTimerFires ==
    /\ overshootPc = "on"
    /\ overshootSequenceTimers > 0
    /\ overshootSequenceTimers' = overshootSequenceTimers - 1
    /\ overshootPendingRotation' = sequencePauseUpdateOvershoot(overshootPendingRotation)
    /\ UNCHANGED << plainVars, commitCount, lastCommitFace, overshootCubies,
                    overshootRotation, overshootPendingCubies, overshootPauseTimers,
                    overshootPublished, overshootAngle, overshootPc >>

\* React re-renders the overshoot variant: the closures take the pending state
RenderOvershoot ==
    /\ overshootPc = "on"
    /\ ~FlushedOvershoot
    /\ overshootRotation' = overshootPendingRotation
    /\ overshootCubies' = overshootPendingCubies
    /\ UNCHANGED << plainVars, commitCount, lastCommitFace, overshootPendingCubies,
                    overshootPendingRotation, overshootPauseTimers,
                    overshootSequenceTimers, overshootPublished, overshootAngle,
                    overshootPc >>

\* angleToRotate of a frame of a turn, in degrees times rotationDuration cubed
angleToRotateOvershoot(rs, newProgress) ==
    LET easedProgress == easeInOutCubic(newProgress, rotationDuration)
        one           == Cubed(rotationDuration)
    IN  IF rs.overshootPhase
        THEN IF newProgress >= rotationDuration
             THEN (baseRotation + overshootAmount) * one
             ELSE baseRotation * easedProgress + overshootAmount * easedProgress
        ELSE IF rs.overshootReturn
        THEN IF newProgress >= rotationDuration
             THEN baseRotation * one
             ELSE baseRotation * one + overshootAmount * (one - easedProgress)
        ELSE IF newProgress >= rotationDuration
             THEN baseRotation * one
             ELSE baseRotation * easedProgress

\* isRotationComplete of a frame of a turn
isRotationComplete(rs, newProgress) ==
    ~rs.overshootPhase /\ rs.overshootReturn /\ newProgress >= rotationDuration

\* the update a frame of a turn queues inside its phase branch
phaseUpdate(prev, rs, newProgress) ==
    IF newProgress < rotationDuration THEN prev
    ELSE IF rs.overshootPhase THEN enterReturnUpdate(prev)
    ELSE IF rs.overshootReturn THEN prev
    ELSE enterOvershootUpdate(prev)

\* the refs after a frame of a turn of face: the cubies of the layer of face
\* take their entry of calculateLayerRotation('TOP', angleToRotate)
publishTurnOvershoot(refs, cubies, face, angle) ==
    [index \in 1..Len(cubies) |->
        IF Includes(getCubiesInLayerOvershoot(cubies, face), index)
        THEN calculateLayerRotationOvershootPartial(cubies, "TOP", angle)[index]
        ELSE refs[index]]

\* the rounding residues explored at a commit: the positions are never
\* snapped, so the residues of the first MaxDriftCommits commits stay in them
OvershootDrifts(count) == IF count < MaxDriftCommits THEN Drifts ELSE { 0 }

\* the frame callback finds a turn going on and completes it
FrameOvershootCompletes(face) ==
    /\ commitCount < MaxOvershootCommits
    /\ \E drift \in OvershootDrifts(commitCount) :
          overshootPendingCubies' = rotateLayerOvershoot(overshootCubies, face, drift)
    /\ overshootPendingRotation' = completionUpdateOvershoot(overshootPendingRotation)
    /\ overshootPauseTimers' =
          Append(overshootPauseTimers, overshootRotation.sequenceIndex)
    /\ commitCount' = commitCount + 1
    /\ lastCommitFace' = face

\* the frame callback finds a turn going on and does not complete it
FrameOvershootContinues(newProgress) ==
    /\ overshootPendingRotation' =
          continueUpdate(phaseUpdate(overshootPendingRotation, overshootRotation,
                                     newProgress),
                         newProgress)
    /\ UNCHANGED << overshootPendingCubies, overshootPauseTimers, commitCount,
                    lastCommitFace >>

\* the frame callback of the overshoot variant, delta in hundredths of a second
FrameOvershoot(delta) ==
    /\ overshootPc = "on"
    /\ IF overshootRotation.isRotating /\ overshootRotation.currentFace # "NONE"
       THEN \E newProgress \in { overshootRotation.progress + delta } :
              /\ overshootAngle' = angleToRotateOvershoot(overshootRotation, newProgress)
              /\ overshootPublished' =
                    publishTurnOvershoot(overshootPublished, overshootCubies,
                                         overshootRotation.currentFace,
                                         angleToRotateOvershoot(overshootRotation,
                                                                newProgress))
              /\ IF isRotationComplete(overshootRotation, newProgress)
                 THEN FrameOvershootCompletes(overshootRotation.currentFace)
                 ELSE FrameOvershootContinues(newProgress)
       ELSE /\ overshootPendingRotation' =
                  IF /\ ~overshootRotation.inRotationPause
                     /\ ~overshootRotation.inSequencePause
                     /\ ~overshootRotation.isRotating
                  THEN firstRotationUpdate(overshootPendingRotation)
                  ELSE overshootPendingRotation
            /\ overshootPublished' =
                  IF ~overshootRotation.isRotating
                  THEN [index \in 1..Len(overshootCubies) |->
                           Unturned(overshootCubies[index].position,
                                    overshootCubies[index].quaternion)]
                  ELSE overshootPublished
            /\ UNCHANGED << overshootPendingCubies, overshootPauseTimers,
                            commitCount, lastCommitFace, overshootAngle >>
    /\ UNCHANGED << plainVars, overshootCubies, overshootRotation,
                    overshootSequenceTimers, overshootPc >>

\* the host calls the frame callback, React having applied the queued updates
FrameTickOvershoot == \E delta \in Deltas : FlushedOvershoot /\ FrameOvershoot(delta)

NextOvershoot ==
    \/ FrameTickOvershoot
    \/ RenderOvershoot
    \/ OvershootPauseTimerFires
    \/ OvershootSequenceTimerFires

SpecOvershoot == InitOvershoot /\ [][NextOvershoot]_vars

(* The host calls the frame callback again before React has applied the   *)
(* updates queued by a completing frame: the callback runs on the closure  *)
(* of the last render, which still holds the turn and the grid before it.  *)
(* Such frames are explored among the first MaxStaleCommits completing     *)
(* frames.                                                                 *)
FrameTickStale ==
    \E delta \in Deltas :
        /\ ~Flushed
        /\ rotationState.isRotating
        /\ pendingRotationState.inRotationPause
        /\ commitCount < MaxStaleCommits
        /\ Frame(delta, commitCount + 1)

NextStale == Next \/ FrameTickStale

SpecStale == Init /\ [][NextStale]_vars

(* Either component: a behaviour is one of Cube.tsx or one of the overshoot *)
(* variant, told apart by overshootPc.                                      *)
InitVariants == Init \/ InitOvershoot

NextVariants == Next \/ NextOvershoot

SpecVariants == InitVariants /\ [][NextVariants]_vars

-----------------------------------------------------------------------------
(* snapToGrid on its own: the vector is drawn, then snapped, then snapped again *)

\* magnitudes around every threshold of snapToGrid: 0, EPSILON, 0.5, 1.0, 1 + gap
SnapMagnitudes ==
    { 0, MaxDrift, EPSILON - 1, EPSILON, EPSILON + MaxDrift,
      (One \div 2) - 1, One \div 2, One - MaxDrift, One, One + MaxDrift,
      One + CUBE_GAP }

SnapInputs == SnapMagnitudes \cup { 0 - m : m \in SnapMagnitudes }

InitSnap ==
    /\ EngineInit
    /\ EaseOff
    /\ OvershootOff
    /\ snapArg \in SnapInputs \X SnapInputs \X SnapInputs
    /\ snapOnce = << 0, 0, 0 >>
    /\ snapTwice = << 0, 0, 0 >>
    /\ snapPc = "arg"

SnapFirst ==
    /\ snapPc = "arg"
    /\ snapOnce' = snapToGrid(snapArg)
    /\ snapPc' = "once"
    /\ UNCHANGED << engineVars, easeVars, overshootVars, snapArg, snapTwice >>

SnapSecond ==
    /\ snapPc = "once"
    /\ snapTwice' = snapToGrid(snapOnce)
    /\ snapPc' = "twice"
    /\ UNCHANGED << engineVars, easeVars, overshootVars, snapArg, snapOnce >>

NextSnap == SnapFirst \/ SnapSecond

SpecSnap == InitSnap /\ [][NextSnap]_vars

-----------------------------------------------------------------------------
(* easeInOutCubic on its own: two arguments s <= t of [0, 1] are drawn, then *)
(* both are eased                                                            *)

InitEase ==
    /\ EngineInit
    /\ SnapOff
    /\ OvershootOff
    /\ easeS \in 0..EaseResolution
    /\ easeT \in easeS..EaseResolution
    /\ easeOfS = 0
    /\ easeOfT = 0
    /\ easePc = "args"

EaseBoth ==
    /\ easePc = "args"
    /\ easeOfS' = easeInOutCubic(easeS, EaseResolution)
    /\ easeOfT' = easeInOutCubic(easeT, EaseResolution)
    /\ easePc' = "done"
    /\ UNCHANGED << engineVars, snapVars, overshootVars, easeS, easeT >>

NextEase == EaseBoth

SpecEase == InitEase /\ [][NextEase]_vars

-----------------------------------------------------------------------------
(* Vocabulary of the properties *)

Lattice == { -One, 0, One }

\* the 26 cells of {-1,0,1}^3 without the origin
SolvedCells == (Lattice \X Lattice \X Lattice) \ { << 0, 0, 0 >> }

IndexSet(cubies) == { cubies[i].indices : i \in 1..Len(cubies) }

GridIsPermutation(cubies) ==
    /\ Len(cubies) = 26
    /\ \A i \in 1..Len(cubies) : \A c \in 1..3 : cubies[i].indices[c] \in Lattice
    /\ \A i, j \in 1..Len(cubies) : i # j => cubies[i].indices # cubies[j].indices
    /\ IndexSet(cubies) = SolvedCells

\* a commit happens in this step
Commits == commitCount' # commitCount

\* the layer of a face on an integer grid, by exact comparison
InLayer(cubies, i, face) ==
    cubies[i].indices[AxisIndex(LAYER_INDICES[face].axis)] = LAYER_INDICES[face].value * One

\* the exact rotation of v by sense * 90 degrees about the positive coordinate axis k
QuarterTurn(k, sense, v) ==
    CASE k = 1 -> << v[1], (0 - sense) * v[3], sense * v[2] >>
      [] k = 2 -> << sense * v[3], v[2], (0 - sense) * v[1] >>
      [] k = 3 -> << (0 - sense) * v[2], sense * v[1], v[3] >>

\* the exact 90-degree rotation times ROTATION_DIRECTIONS[face] about ROTATION_AXES[face]
FaceQuarterTurn(face, v) ==
    LET k == CHOOSE c \in 1..3 : ROTATION_AXES[face][c] # 0
    IN  QuarterTurn(k, ROTATION_DIRECTIONS[face] * ROTATION_AXES[face][k], v)

\* number of face layers getCubiesInLayer puts cubie i in
Memberships(cubies, i) ==
    Cardinality({ f \in Faces : Includes(getCubiesInLayer(cubies, f), i) })

ExpectedMemberships(type) ==
    CASE type = "corner" -> 3 [] type = "edge" -> 2 [] type = "center" -> 1

RECURSIVE SumLayerSizes(_, _)
SumLayerSizes(cubies, faces) ==
    IF faces = {} THEN 0
    ELSE LET f == CHOOSE g \in faces : TRUE
         IN  Len(getCubiesInLayer(cubies, f)) + SumLayerSizes(cubies, faces \ {f})

Distinct(seq) == \A a, b \in 1..Len(seq) : a # b => seq[a] # seq[b]

\* rotateLayer(face) four times in succession
FourTurns(cubies, face, drift) ==
    rotateLayer(rotateLayer(rotateLayer(rotateLayer(cubies, face, drift),
                                        face, drift), face, drift), face, drift)

SameIndices(a, b) ==
    /\ Len(a) = Len(b)
    /\ \A i \in 1..Len(a) : a[i].indices = b[i].indices

-----------------------------------------------------------------------------
(* C1: whenever no rotation is in progress, every grid index has components *)
(* in {-1,0,1}, the 26 grid indices are pairwise distinct, and as a set     *)
(* they are {-1,0,1}^3 without the origin.                                  *)
C1_PermutationInvariant ==
    /\ ~rotationState.isRotating => GridIsPermutation(cubiePositions)
    /\ ~pendingRotationState.isRotating => GridIsPermutation(pendingCubiePositions)

C1_Witness ==
    /\ commitCount >= 6
    /\ Flushed
    /\ ~rotationState.isRotating
    /\ \E i \in 1..26 : cubiePositions[i].indices # initialCubiePositions[i].indices

(* C2: the k-th commit is for face ROTATION_SEQUENCE[(k-1) mod 6], one commit *)
(* at a time, and a commit is for the face that is being animated.            *)
C2_CommitOrder ==
    [][ Commits =>
          /\ commitCount' = commitCount + 1
          /\ lastCommitFace' = ROTATION_SEQUENCE[(commitCount % 6) + 1]
          /\ rotationState.isRotating
          /\ rotationState.currentFace = lastCommitFace'
          /\ pendingRotationState.isRotating
          /\ pendingRotationState.currentFace = lastCommitFace' ]_vars

C2_Witness == commitCount = 9 /\ lastCommitFace = "BACK"

(* C3: a commit of face f replaces the grid index of each cubie of f's layer *)
(* by its exact quarter turn about f's axis in f's direction, on the integer *)
(* grid; the first commit (RIGHT) maps (1, y, z) to (1, -z, y).              *)
C3_CommitRotatesLayer ==
    [][ Commits =>
          /\ \A i \in 1..26 :
                InLayer(cubiePositions, i, lastCommitFace') =>
                    pendingCubiePositions'[i].indices =
                        FaceQuarterTurn(lastCommitFace', cubiePositions[i].indices)
          /\ commitCount = 0 =>
                \A i \in 1..26 :
                    cubiePositions[i].indices[1] = One =>
                        pendingCubiePositions'[i].indices =
                            << One, 0 - cubiePositions[i].indices[3],
                               cubiePositions[i].indices[2] >> ]_vars

C3_Witness ==
    /\ commitCount = 1
    /\ lastCommitFace = "RIGHT"
    /\ pendingCubiePositions[26].indices = << One, -One, One >>
    /\ initialCubiePositions[26].indices = << One, One, One >>

(* C4: a commit of face f leaves the grid index, position and orientation of *)
(* each of the 17 cubies outside f's layer unchanged.                        *)
C4_CommitKeepsOthers ==
    [][ Commits =>
          \A i \in 1..26 :
              ~InLayer(cubiePositions, i, lastCommitFace') =>
                  /\ pendingCubiePositions'[i].indices = cubiePositions[i].indices
                  /\ pendingCubiePositions'[i].position = cubiePositions[i].position
                  /\ pendingCubiePositions'[i].quaternion = cubiePositions[i].quaternion ]_vars

(* C5: whenever no rotation is in progress, getCubiesInLayer returns exactly *)
(* 9 distinct cubie indices for each of the 6 faces.                         *)
C5_NinePerLayer ==
    /\ ~rotationState.isRotating =>
          \A f \in Faces : /\ Len(getCubiesInLayer(cubiePositions, f)) = 9
                           /\ Distinct(getCubiesInLayer(cubiePositions, f))
    /\ ~pendingRotationState.isRotating =>
          \A f \in Faces : /\ Len(getCubiesInLayer(pendingCubiePositions, f)) = 9
                           /\ Distinct(getCubiesInLayer(pendingCubiePositions, f))

C5_Witness ==
    /\ commitCount >= 3
    /\ Flushed
    /\ ~rotationState.isRotating
    /\ getCubiesInLayer(cubiePositions, "TOP") # getCubiesInLayer(initialCubiePositions, "TOP")
    /\ Len(getCubiesInLayer(cubiePositions, "TOP")) = 9

(* C6: whenever no rotation is in progress, a 'corner' is in exactly 3 face *)
(* layers, an 'edge' in 2 and a 'center' in 1, and the six layers hold 54   *)
(* memberships in all.                                                      *)
C6_TypeMatchesLayers ==
    /\ ~rotationState.isRotating =>
          /\ \A i \in 1..26 : Memberships(cubiePositions, i)
                                 = ExpectedMemberships(cubiePositions[i].type)
          /\ SumLayerSizes(cubiePositions, Faces) = 54
    /\ ~pendingRotationState.isRotating =>
          /\ \A i \in 1..26 : Memberships(pendingCubiePositions, i)
                                 = ExpectedMemberships(pendingCubiePositions[i].type)
          /\ SumLayerSizes(pendingCubiePositions, Faces) = 54

C6_Witness ==
    /\ commitCount >= 2
    /\ Flushed
    /\ ~rotationState.isRotating
    /\ \E i \in 1..26 :
          /\ cubiePositions[i].type = "edge"
          /\ cubiePositions[i].indices # initialCubiePositions[i].indices
          /\ Memberships(cubiePositions, i) = 2

(* C7: from every grid state reached by committed turns, four rotateLayer(f) *)
(* in succession give every cubie its grid index back, for every face f.     *)
C7_FourTurnsRoundTrip ==
    \A f \in Faces : \A drift \in Drifts :
        SameIndices(FourTurns(pendingCubiePositions, f, drift), pendingCubiePositions)

C7_Witness ==
    /\ commitCount >= 5
    /\ Flushed
    /\ ~SameIndices(rotateLayer(cubiePositions, "FRONT", MaxDrift), cubiePositions)
    /\ ~SameIndices(rotateLayer(rotateLayer(cubiePositions, "FRONT", MaxDrift),
                                "FRONT", MaxDrift), cubiePositions)
    /\ SameIndices(FourTurns(cubiePositions, "FRONT", MaxDrift), cubiePositions)

\* the sixth commit has happened and the rotation pause after it is over
AfterSixthPause == commitCount = 6 /\ rotationPauseTimers = 0

C9_Original == commitCount = 1 => pendingRotationState.sequenceIndex = 1

(* C9 as amended: once the first RIGHT quarter turn has committed,           *)
(* sequenceIndex is still 0 during the rotation pause, and it is 1 (face     *)
(* FRONT) from the moment the pause timer runs startNextRotation.            *)
C9_IndexAdvancesAfterPause ==
    commitCount = 1 =>
        IF pendingRotationState.inRotationPause
        THEN /\ pendingRotationState.sequenceIndex = 0
             /\ ~pendingRotationState.isRotating
             /\ rotationPauseTimers = 1
        ELSE /\ pendingRotationState.sequenceIndex = 1
             /\ pendingRotationState.currentFace = "FRONT"
             /\ pendingRotationState.isRotating

C9_Witness ==
    /\ commitCount = 1
    /\ lastCommitFace = "RIGHT"
    /\ Flushed
    /\ rotationState.isRotating
    /\ rotationState.sequenceIndex = 1
    /\ rotationState.currentFace = "FRONT"

IsIntegerVec(v) == \A c \in 1..3 : v[c] % One = 0

(* C10: snapToGrid(snapToGrid(v)) = snapToGrid(v) for every vector v, and *)
(* snapToGrid(v) = v when every component of v is an integer.             *)
C10_SnapIdempotent ==
    /\ snapPc = "twice" => snapTwice = snapOnce
    /\ (snapPc \in {"once", "twice"} /\ IsIntegerVec(snapArg)) => snapOnce = snapArg

C10_Witness ==
    /\ snapPc = "twice"
    /\ snapArg = << One + CUBE_GAP, MaxDrift - One, 0 - One >>
    /\ snapOnce = << One, 0 - One, 0 - One >>
    /\ snapTwice = snapOnce

(* C11: easeInOutCubic(0) = 0, easeInOutCubic(1) = 1, and s <= t implies    *)
(* easeInOutCubic(s) <= easeInOutCubic(t) on [0, 1], the two arguments on   *)
(* either side of the branch switch at 0.5 included.                        *)
C11_EaseEndpointsMonotone ==
    easePc = "done" =>
        /\ easeS = 0 => easeOfS = 0
        /\ easeT = EaseResolution =>
              easeOfT = EaseResolution * EaseResolution * EaseResolution
        /\ easeOfS <= easeOfT

\* neighbouring arguments, one in each branch
C11_Witness ==
    /\ easePc = "done"
    /\ 2 * easeS < EaseResolution
    /\ 2 * easeT >= EaseResolution
    /\ easeT = easeS + 1
    /\ easeOfS < easeOfT

(* C12: the Grid State changes only at commit.  A step that changes the     *)
(* grid React holds is a commit; frames that do not complete a turn, frames *)
(* during a pause, the timers and startNextRotation leave it as it is.  The *)
(* grid the closures read (the input of calculateLayerRotation) changes     *)
(* only when React hands the committed grid to a new render.                *)
C12_GridChangesOnlyAtCommit ==
    [][ /\ pendingCubiePositions' # pendingCubiePositions => Commits
        /\ cubiePositions' # cubiePositions =>
              /\ cubiePositions' = pendingCubiePositions
              /\ pendingCubiePositions' = pendingCubiePositions ]_vars

\* after the first commit: the pause timer has run startNextRotation and frames
\* have advanced the FRONT turn, the grid being that of the commit
C12_Witness ==
    /\ commitCount = 1
    /\ Flushed
    /\ rotationState.isRotating
    /\ rotationState.currentFace = "FRONT"
    /\ rotationState.progress > 0
    /\ published[Len(published)].position.about = "FRONT"
    /\ cubiePositions # initialCubiePositions

\* position = gridIndex * (CUBE_SIZE + CUBE_GAP), component by component
OnGrid(cubie) ==
    cubie.position =
        VScale(CUBE_SIZE + CUBE_GAP, [c \in 1..3 |-> cubie.indices[c] \div One])

(* C13: whenever no turn is in progress, after any number of commits, the *)
(* position of every cubie is its grid index times (CUBE_SIZE + CUBE_GAP), *)
(* component by component.                                                 *)
C13_IdlePositionOnGrid ==
    ~pendingRotationState.isRotating =>
        \A i \in 1..Len(pendingCubiePositions) : OnGrid(pendingCubiePositions[i])

FreshGrid(cubies) ==
    /\ Len(cubies) = 26
    /\ IndexSet(cubies) = SolvedCells
    /\ \A i \in 1..Len(cubies) :
          /\ OnGrid(cubies[i])
          /\ cubies[i].quaternion = << << 0, 0 >>, << 0, 0 >>, << 0, 0 >>, << 2, 0 >> >>

\* no turn in progress, progress 0, sequenceIndex 0
FreshAnimation(state) ==
    /\ ~state.isRotating
    /\ state.progress = 0
    /\ state.sequenceIndex = 0

(* C15: a newly constructed engine holds 26 cubies on the solved cells, each *)
(* with the identity orientation, with isRotating false, progress 0 and      *)
(* sequenceIndex 0; and the first change of the animation state starts the   *)
(* turn of RIGHT with sequenceIndex 0 and progress 0.                        *)
C15_FreshEngine ==
    /\ [](initTimer =>
            /\ FreshGrid(cubiePositions) /\ FreshGrid(pendingCubiePositions)
            /\ FreshAnimation(rotationState) /\ FreshAnimation(pendingRotationState))
    /\ [][ (initTimer /\ pendingRotationState' # pendingRotationState) =>
              /\ pendingRotationState'.isRotating
              /\ pendingRotationState'.currentFace = "RIGHT"
              /\ pendingRotationState'.sequenceIndex = 0
              /\ pendingRotationState'.progress = 0
              /\ pendingCubiePositions' = pendingCubiePositions ]_vars

\* the first turn has started and no frame has advanced it
C15_Witness ==
    /\ ~initTimer
    /\ commitCount = 0
    /\ Flushed
    /\ rotationState.isRotating
    /\ rotationState.currentFace = "RIGHT"
    /\ rotationState.sequenceIndex = 0
    /\ rotationState.progress = 0
    /\ FreshGrid(cubiePositions)

\* one of the three timers fires
TimerFires == InitTimerFires \/ RotationPauseTimerFires \/ SequencePauseTimerFires

(* C16, as stated: while the host does not call the Frame Driver the       *)
(* animation state does not change, every transition being driven by frame *)
(* deltas.                                                                 *)
C16_Original ==
    [][ ~FrameTick => pendingRotationState' = pendingRotationState ]_vars

(* C16, amended: a step that is not a frame leaves progress, the Grid State *)
(* and a turn in progress as they are, but it is such a step, the firing of *)
(* a timer, that ends the initial delay, the rotation pause and the         *)
(* sequence pause: no frame starts a turn.                                  *)
C16_TimersEndPauses ==
    [][ /\ ~FrameTick =>
              /\ pendingRotationState'.progress = pendingRotationState.progress
              /\ pendingCubiePositions' = pendingCubiePositions
              /\ commitCount' = commitCount
              /\ pendingRotationState.isRotating =>
                    pendingRotationState' = pendingRotationState
        /\ (~pendingRotationState.isRotating /\ pendingRotationState'.isRotating) =>
              TimerFires /\ ~FrameTick
        /\ (pendingRotationState.inSequencePause
               /\ ~pendingRotationState'.inSequencePause) =>
              SequencePauseTimerFires /\ ~FrameTick ]_vars

\* the sequence pause has ended and the second pass has started
C16_Witness ==
    /\ commitCount = Len(ROTATION_SEQUENCE)
    /\ lastCommitFace = "BOTTOM"
    /\ pendingRotationState.isRotating
    /\ pendingRotationState.currentFace = "RIGHT"
    /\ pendingRotationState.progress = 0
    /\ ~pendingRotationState.inSequencePause
    /\ ~sequencePauseTimer

(* C17: a frame with delta = 0 changes nothing, in every reachable state *)
(* the frame callback sees: the animation state and the Grid State stay  *)
(* as they are, and the transforms it publishes are those already        *)
(* published, so that calling it again publishes them once more.         *)
C17_ZeroDeltaFrameIdempotent ==
    Flushed => ~ENABLED <<Frame(0, commitCount + 1)>>_vars

\* inside a turn, the layer published at a partial angle: the zero-delta frame
\* publishes it again
C17_Witness ==
    /\ Flushed
    /\ rotationState.isRotating
    /\ rotationState.currentFace = "TOP"
    /\ rotationState.progress = 2 * DeltaStep
    /\ \E i \in 1..Len(published) :
          /\ published[i].position.about = "TOP"
          /\ published[i].position.angle =
                easeInOutCubic(rotationState.progress, rotationSpeed)

(* C18: a frame with a negative delta is treated as a frame with delta = 0: *)
(* while a turn is in progress, no step makes progress smaller.             *)
C18_NegativeDeltaClamped ==
    [][ (pendingRotationState.isRotating /\ pendingRotationState'.isRotating) =>
            pendingRotationState'.progress >= pendingRotationState.progress ]_vars

\* the step commits face, turning the grid index of every cubie of its layer by
\* sense * 90 degrees about the positive coordinate axis through the face
CommitTurns(face, sense) ==
    /\ Commits
    /\ lastCommitFace' = face
    /\ \A i \in 1..Len(cubiePositions) :
          InLayer(cubiePositions, i, face) =>
              pendingCubiePositions'[i].indices =
                  QuarterTurn(AxisIndex(LAYER_INDICES[face].axis), sense,
                              cubiePositions[i].indices)

(* C19, as stated: seen from outside the face, every face turns in one     *)
(* sense: the committed quarter turn of face f is the rotation by +90      *)
(* degrees about f's outward axis, which about the positive coordinate     *)
(* axis is +90 degrees for RIGHT, TOP, FRONT and -90 degrees for LEFT,     *)
(* BOTTOM, BACK.                                                           *)
C19_Original ==
    [][ Commits => CommitTurns(lastCommitFace', LAYER_INDICES[lastCommitFace'].value) ]_vars

(* C19, amended: every face turns by +90 degrees about the positive        *)
(* coordinate axis through it, so the two faces of a pair (RIGHT and LEFT, *)
(* TOP and BOTTOM, FRONT and BACK) turn in the same sense about the axis   *)
(* they share, and in opposite senses seen from outside the face.          *)
C19_SameSenseAboutCoordinateAxis ==
    [][ Commits => CommitTurns(lastCommitFace', 1) ]_vars

\* BACK, LEFT and BOTTOM have each been committed
C19_Witness ==
    /\ commitCount = Len(ROTATION_SEQUENCE)
    /\ lastCommitFace = "BOTTOM"
    /\ ~SameIndices(pendingCubiePositions, initialCubiePositions)

\* the transform of cubie, turned about the axis and pivot of face by angle
TurnedAbout(cubie, face, angle) ==
    [ position   |-> [ base |-> cubie.position, about |-> face, angle |-> angle ],
      quaternion |-> [ base |-> cubie.quaternion, about |-> face, angle |-> angle ] ]

(* C20: in every frame of a turn of face f before its commit, the scene    *)
(* object of each cubie of f's layer holds that cubie's transform of the   *)
(* Grid State turned about f's own axis and pivot by the eased part of the *)
(* quarter turn, in f's direction; the scene object of every other cubie   *)
(* holds its transform of the Grid State; and no scene object is ever      *)
(* turned about the axis of a face that is not the one turning.            *)
C20_PublishedTurnOfCurrentFace ==
    LET face == pendingRotationState.currentFace
    IN  /\ (pendingRotationState.isRotating /\ pendingRotationState.progress > 0) =>
              \A i \in 1..Len(published) :
                  published[i] =
                      IF InLayer(pendingCubiePositions, i, face)
                      THEN TurnedAbout(pendingCubiePositions[i], face,
                                       ROTATION_DIRECTIONS[face]
                                         * easeInOutCubic(pendingRotationState.progress,
                                                          rotationSpeed))
                      ELSE TurnedAbout(pendingCubiePositions[i], "NONE", 0)
        /\ \A i \in 1..Len(published) :
              /\ published[i].position.about \in {"NONE", face}
              /\ published[i].quaternion.about \in {"NONE", face}
              /\ ~pendingRotationState.isRotating =>
                    published[i].position.about = "NONE"

\* half-way through the turn of LEFT, whose direction is -1
C20_Witness ==
    /\ pendingRotationState.isRotating
    /\ pendingRotationState.currentFace = "LEFT"
    /\ pendingRotationState.progress = 2 * DeltaStep
    /\ \E i \in 1..Len(published) :
          /\ InLayer(pendingCubiePositions, i, "LEFT")
          /\ published[i].position.about = "LEFT"
          /\ published[i].position.angle < 0
    /\ \E i \in 1..Len(published) :
          /\ InLayer(pendingCubiePositions, i, "TOP")
          /\ ~InLayer(pendingCubiePositions, i, "LEFT")
          /\ published[i].position.about = "NONE"

-----------------------------------------------------------------------------
(* The overshoot variant *)

\* a step of the overshoot variant commits a turn
OvershootCommits == overshootPc = "on" /\ commitCount' = commitCount + 1

(* C21: in the overshoot variant a turn commits only in a frame of the     *)
(* OvershootReturn sub-phase, and the phases of a turn come in order: a     *)
(* turn starts in the initial phase (both flags false), the Overshoot       *)
(* sub-phase is entered only from the initial phase and without a commit,   *)
(* the OvershootReturn sub-phase only from the Overshoot sub-phase, and the *)
(* committing frame sees overshootReturn true.                              *)
C21_CommitOnlyAfterOvershootReturn ==
    [][ /\ OvershootCommits =>
             /\ overshootRotation.isRotating
             /\ overshootRotation.overshootReturn
             /\ ~overshootRotation.overshootPhase
        /\ overshootPendingRotation'.overshootReturn
             /\ ~overshootPendingRotation.overshootReturn =>
               /\ overshootPendingRotation.isRotating
               /\ overshootPendingRotation.overshootPhase
               /\ ~overshootPendingRotation'.overshootPhase
        /\ overshootPendingRotation'.overshootPhase
             /\ ~overshootPendingRotation.overshootPhase =>
               /\ overshootPendingRotation.isRotating
               /\ ~overshootPendingRotation.overshootReturn
               /\ ~overshootPendingRotation'.overshootReturn
               /\ ~OvershootCommits
        /\ overshootPendingRotation'.isRotating
             /\ ~overshootPendingRotation.isRotating =>
               /\ ~overshootPendingRotation'.overshootPhase
               /\ ~overshootPendingRotation'.overshootReturn
      ]_vars

\* the second turn of the overshoot variant has been committed by a frame of
\* the return phase
C21_Witness ==
    /\ overshootPc = "on"
    /\ commitCount = 2
    /\ lastCommitFace = "FRONT"
    /\ overshootRotation.overshootReturn
    /\ overshootPendingRotation.inRotationPause

\* a step of the overshoot variant enters the Overshoot sub-phase
EntersOvershoot ==
    /\ overshootPc = "on"
    /\ ~overshootPendingRotation.overshootPhase
    /\ overshootPendingRotation'.overshootPhase

\* a step of the overshoot variant enters the OvershootReturn sub-phase
EntersOvershootReturn ==
    /\ overshootPc = "on"
    /\ ~overshootPendingRotation.overshootReturn
    /\ overshootPendingRotation'.overshootReturn

(* C22: in the overshoot variant the frame that enters the Overshoot      *)
(* sub-phase and the frame that enters the OvershootReturn sub-phase each  *)
(* leave the stored progress at 0, so that the sub-phase lasts until the   *)
(* deltas after its entry add up to rotationDuration.                      *)
C22_EnteringLeavesProgressZero ==
    [][ EntersOvershoot \/ EntersOvershootReturn =>
          overshootPendingRotation'.progress = 0 ]_vars

\* the frame callback runs with the closure in one of the two sub-phases
SubPhaseFrame ==
    /\ FrameTickOvershoot
    /\ overshootRotation.isRotating
    /\ overshootRotation.overshootPhase \/ overshootRotation.overshootReturn

(* C23: in the overshoot variant every frame of the Overshoot or the       *)
(* OvershootReturn sub-phase (deltas not negative) computes an angle for   *)
(* the turn between 90 and 90 + 3 degrees inclusive: once the initial      *)
(* phase has reached 90 degrees the angle does not fall below 90 degrees.  *)
C23_SubPhaseAngleInRange ==
    [][ SubPhaseFrame =>
          /\ baseRotation * Cubed(rotationDuration) <= overshootAngle'
          /\ overshootAngle' <= (baseRotation + overshootAmount) * Cubed(rotationDuration)
      ]_vars

\* a frame of the Overshoot sub-phase of the second turn has computed the
\* angle 90 + 3 degrees and entered the OvershootReturn sub-phase
C23_Witness ==
    /\ overshootPc = "on"
    /\ commitCount = 1
    /\ overshootRotation.overshootPhase
    /\ overshootPendingRotation.overshootReturn
    /\ overshootAngle = (baseRotation + overshootAmount) * Cubed(rotationDuration)

-----------------------------------------------------------------------------
(* The animation state of Cube.tsx *)

(* C24: in every reachable state (frames with deltas that are not negative,  *)
(* of any size) the stored progress is at least 0 and at most 1, and it is 0 *)
(* whenever no rotation is in progress.                                      *)
C24_ProgressInUnitRange ==
    \A rs \in { rotationState, pendingRotationState } :
        /\ 0 <= rs.progress
        /\ rs.progress <= rotationSpeed
        /\ ~rs.isRotating => rs.progress = 0

\* a frame whose delta takes the progress of 75 hundredths of a second past
\* the rotation duration has completed the turn: the stored progress is 0
C24_Witness ==
    /\ rotationState.isRotating
    /\ rotationState.progress = MaxDeltaSteps * DeltaStep - DeltaStep
    /\ ~pendingRotationState.isRotating
    /\ pendingRotationState.inRotationPause
    /\ pendingRotationState.progress = 0

(* C25: the completion of a turn is followed by a rotation pause.  The     *)
(* completing frame sets isRotating false, inRotationPause true and         *)
(* progress 0; while the rotation pause lasts no frame of any delta changes *)
(* anything (no progress, no partial rotation, no commit), and only the     *)
(* pause timer, which is pending, ends the pause.                           *)
C25_RotationPauseAfterCompletion ==
    /\ [][ Commits =>
             /\ ~pendingRotationState'.isRotating
             /\ pendingRotationState'.inRotationPause
             /\ pendingRotationState'.progress = 0 ]_vars
    /\ [](pendingRotationState.inRotationPause =>
             /\ rotationPauseTimers > 0
             /\ ~ENABLED << FrameTick >>_vars)
    /\ [][ pendingRotationState.inRotationPause
             /\ ~pendingRotationState'.inRotationPause =>
               rotationPauseTimers' = rotationPauseTimers - 1 ]_vars

\* the rotation pause after the fourth commit, as the frame callback sees it
C25_Witness ==
    /\ commitCount = 4
    /\ Flushed
    /\ rotationState.inRotationPause
    /\ ~rotationState.isRotating
    /\ rotationPauseTimers = 1

\* at most one of the three phase flags of a rotationState is true
OnePhase(rs) ==
    /\ ~(rs.isRotating /\ rs.inRotationPause)
    /\ ~(rs.isRotating /\ rs.inSequencePause)
    /\ ~(rs.inRotationPause /\ rs.inSequencePause)

(* C26: in every reachable state at most one of isRotating, inRotationPause *)
(* and inSequencePause is true; in the overshoot variant, in addition,      *)
(* overshootPhase and overshootReturn are never both true and either of     *)
(* them being true implies isRotating.                                      *)
C26_PhaseFlagsExclusive ==
    IF overshootPc = "on"
    THEN \A rs \in { overshootRotation, overshootPendingRotation } :
            /\ OnePhase(rs)
            /\ ~(rs.overshootPhase /\ rs.overshootReturn)
            /\ rs.overshootPhase \/ rs.overshootReturn => rs.isRotating
    ELSE \A rs \in { rotationState, pendingRotationState } : OnePhase(rs)

\* the overshoot variant in the Overshoot sub-phase of the first turn after
\* a sequence pause
C26_Witness ==
    /\ overshootPc = "on"
    /\ commitCount = Len(ROTATION_SEQUENCE)
    /\ overshootRotation.isRotating
    /\ overshootRotation.overshootPhase
    /\ overshootRotation.currentFace = SequenceFace(0)

\* the face that follows face in ROTATION_SEQUENCE (the first, after none)
FaceAfter(face) ==
    IF face = "NONE"
    THEN SequenceFace(0)
    ELSE LET i == CHOOSE k \in 0..(Len(ROTATION_SEQUENCE) - 1) : SequenceFace(k) = face
         IN  SequenceFace((i + 1) % Len(ROTATION_SEQUENCE))

(* C27: when the frame callback runs again before the updates queued by the *)
(* completing frame are applied, the turn takes effect once: every          *)
(* completing frame leaves the Grid State a single quarter turn of its face *)
(* away from the rendered one, and the face it commits is the face of the   *)
(* last commit (the same turn, seen again) or the next face of the          *)
(* sequence, so that no face is skipped.                                    *)
C27_StaleFrameTurnsOnce ==
    [][ Commits =>
          /\ SameIndices(pendingCubiePositions',
                         rotateLayer(cubiePositions, lastCommitFace', 0))
          /\ \/ lastCommitFace' = lastCommitFace
             \/ lastCommitFace' = FaceAfter(lastCommitFace) ]_vars

\* the Grid State after the first k turns of the sequence from the fresh
\* cube, each an exact rotateLayer
RECURSIVE GridAfter(_)
GridAfter(k) ==
    IF k = 0
    THEN initialCubiePositions
    ELSE rotateLayer(GridAfter(k - 1),
                     SequenceFace((k - 1) % Len(ROTATION_SEQUENCE)), 0)

\* the same grid indices and orientations
SameGrid(a, b) ==
    /\ Len(a) = Len(b)
    /\ \A i \in 1..Len(a) :
          /\ a[i].indices = b[i].indices
          /\ a[i].quaternion = b[i].quaternion

(* C28: the sequence of committed Grid States does not depend on how the   *)
(* elapsed time is split into frames: in every run, whatever its deltas,   *)
(* the Grid State after the k-th commit is the same function of k alone,   *)
(* and a frame, however large its delta, commits at most one quarter turn. *)
C28_GridIndependentOfFrameSplit ==
    /\ [](SameGrid(pendingCubiePositions, GridAfter(commitCount)))
    /\ [][ commitCount' = commitCount \/ commitCount' = commitCount + 1 ]_vars

\* the third commit was made by a single frame of 1.0 s, longer than the
\* rotation duration, from progress 0
C28_Witness ==
    /\ commitCount = 3
    /\ rotationState.isRotating
    /\ rotationState.progress = 0
    /\ pendingRotationState.inRotationPause
    /\ MaxDeltaSteps * DeltaStep > rotationSpeed

(* C29: whenever isRotating is true, currentFace is not null and is         *)
(* ROTATION_SEQUENCE[sequenceIndex], with sequenceIndex from 0 to 5.        *)
C29_CurrentFaceFollowsIndex ==
    \A rs \in { rotationState, pendingRotationState } :
        rs.isRotating =>
            /\ rs.currentFace # "NONE"
            /\ rs.sequenceIndex \in 0..(Len(ROTATION_SEQUENCE) - 1)
            /\ rs.currentFace = SequenceFace(rs.sequenceIndex)

\* the first turn of the second round: the sequence pause has set the index
\* back to 0 and the face to the first of the sequence
C29_Witness ==
    /\ commitCount = Len(ROTATION_SEQUENCE)
    /\ rotationState.isRotating
    /\ rotationState.sequenceIndex = 0
    /\ rotationState.currentFace = SequenceFace(0)

====
